---- MODULE Spec2Model ----
(***************************************************************************)
(* new_puzzle.py: the scaffold generator.  One run of the script checks    *)
(* its argument list, converts the first argument with int(), opens        *)
(* <script dir>/src/puzzle/day<n>.rs for writing and writes the template   *)
(* with every "<D>" replaced by str(n).  Strings are sequences of          *)
(* one-character strings, so that int(), '%d', '%r', str.replace and the   *)
(* os.path functions are computed character by character.                  *)
(***************************************************************************)
EXTENDS Integers, Sequences, FiniteSets, TLC

\* ------------------------------------------------------------ bounds
\* The longest first argument the runs are given.
MaxArgLen == 2

\* ------------------------------------------------------------ strings
Digits == <<"0","1","2","3","4","5","6","7","8","9">>

IsDigit(c) == \E i \in 1..10 : Digits[i] = c

DigitVal(c) == (CHOOSE i \in 1..10 : Digits[i] = c) - 1

\* str.isspace() on the characters the runs use.
IsSpace(c) == c \in {" ", "\t", "\n"}

RECURSIVE LStrip(_)
LStrip(s) == IF s # <<>> /\ IsSpace(Head(s)) THEN LStrip(Tail(s)) ELSE s

RECURSIVE RStrip(_)
RStrip(s) ==
    IF s # <<>> /\ IsSpace(s[Len(s)]) THEN RStrip(SubSeq(s, 1, Len(s) - 1)) ELSE s

Strip(s) == RStrip(LStrip(s))

\* The literal after an optional sign: digits, with single underscores allowed
\* between two digits only.
ValidLiteral(b) ==
    /\ b # <<>>
    /\ IsDigit(b[1])
    /\ IsDigit(b[Len(b)])
    /\ \A i \in 1..Len(b) : IsDigit(b[i]) \/ b[i] = "_"
    /\ \A i \in 1..(Len(b) - 1) : ~(b[i] = "_" /\ b[i + 1] = "_")

RECURSIVE LiteralValue(_, _)
LiteralValue(b, acc) ==
    IF b = <<>> THEN acc
    ELSE IF Head(b) = "_" THEN LiteralValue(Tail(b), acc)
    ELSE LiteralValue(Tail(b), 10 * acc + DigitVal(Head(b)))

\* A mutant of ParseInt: the sign of the literal is dropped.
ParseIntNoSign(s) ==
    LET t == Strip(s)
        signed == t # <<>> /\ Head(t) \in {"-", "+"}
        body == IF signed THEN Tail(t) ELSE t
    IN  IF ValidLiteral(body)
        THEN [ok |-> TRUE, val |-> LiteralValue(body, 0)]
        ELSE [ok |-> FALSE, val |-> 0]

\* A mutant of ParseInt: a string int() rejects is taken as 0.
ParseIntLenient(s) ==
    LET t == Strip(s)
        signed == t # <<>> /\ Head(t) \in {"-", "+"}
        body == IF signed THEN Tail(t) ELSE t
        mag == IF ValidLiteral(body) THEN LiteralValue(body, 0) ELSE 0
    IN  [ok |-> TRUE, val |-> IF signed /\ Head(t) = "-" THEN -mag ELSE mag]

\* int(s) in base 10: ok is FALSE where int() raises ValueError.
ParseInt(s) ==
    LET t == Strip(s)
        signed == t # <<>> /\ Head(t) \in {"-", "+"}
        body == IF signed THEN Tail(t) ELSE t
        mag == LiteralValue(body, 0)
    IN  IF ValidLiteral(body)
        THEN [ok |-> TRUE, val |-> IF signed /\ Head(t) = "-" THEN -mag ELSE mag]
        ELSE [ok |-> FALSE, val |-> 0]

RECURSIVE NatStr(_)
NatStr(k) ==
    IF k < 10 THEN <<Digits[k + 1]>> ELSE NatStr(k \div 10) \o <<Digits[(k % 10) + 1]>>

\* str(n).
Str(n) == IF n < 0 THEN <<"-">> \o NatStr(-n) ELSE NatStr(n)

\* A mutant of FormatD: the sign is lost in the file name.
FormatDAbs(n) == NatStr(IF n < 0 THEN -n ELSE n)

\* '%d' % n.
FormatD(n) == IF n < 0 THEN <<"-">> \o NatStr(-n) ELSE NatStr(n)

ReprChar(c, q) ==
    IF c = "\\" THEN <<"\\", "\\">>
    ELSE IF c = q THEN <<"\\", c>>
    ELSE IF c = "\n" THEN <<"\\", "n">>
    ELSE IF c = "\t" THEN <<"\\", "t">>
    ELSE <<c>>

RECURSIVE ReprBody(_, _)
ReprBody(s, q) == IF s = <<>> THEN <<>> ELSE ReprChar(Head(s), q) \o ReprBody(Tail(s), q)

Contains(s, c) == \E i \in 1..Len(s) : s[i] = c

\* '%r' % s for a str: quoted and escaped, on one line.
Repr(s) ==
    LET q == IF Contains(s, "'") /\ ~Contains(s, "\"") THEN "\"" ELSE "'"
    IN  <<q>> \o ReprBody(s, q) \o <<q>>

\* str.find(old, i): the first index >= i where old occurs in s, 0 when none
\* (indices from 1).
Find(s, old, i) ==
    LET hits == {j \in i..(Len(s) - Len(old) + 1) : SubSeq(s, j, j + Len(old) - 1) = old}
    IN  IF hits = {} THEN 0 ELSE CHOOSE j \in hits : \A k \in hits : j <= k

\* The starts of the non-overlapping occurrences of a non-empty old in s, left to
\* right, from index i on.
RECURSIVE Occurrences(_, _, _)
Occurrences(s, old, i) ==
    LET j == Find(s, old, i)
    IN  IF j = 0 THEN <<>> ELSE <<j>> \o Occurrences(s, old, j + Len(old))

\* s with new in place of the Len(old) characters at each of starts; pos is the
\* first character not yet copied.
RECURSIVE Splice(_, _, _, _, _)
Splice(s, starts, pos, old, new) ==
    IF starts = <<>> THEN SubSeq(s, pos, Len(s))
    ELSE SubSeq(s, pos, Head(starts) - 1) \o new
         \o Splice(s, Tail(starts), Head(starts) + Len(old), old, new)

\* A mutant of Replace: only the first occurrence is replaced (count = 1).
ReplaceFirst(s, old, new) ==
    LET occ == Occurrences(s, old, 1)
    IN  Splice(s, IF occ = <<>> THEN occ ELSE <<Head(occ)>>, 1, old, new)

\* A mutant of Replace: the last occurrence is left as it is.
ReplaceButLast(s, old, new) ==
    LET occ == Occurrences(s, old, 1)
    IN  Splice(s, IF occ = <<>> THEN occ ELSE SubSeq(occ, 1, Len(occ) - 1), 1, old, new)

\* str.replace(old, new) with a non-empty old: every non-overlapping occurrence,
\* left to right.
Replace(s, old, new) == Splice(s, Occurrences(s, old, 1), 1, old, new)

\* str.count(p).
Count(s, p) == Len(Occurrences(s, p, 1))

\* ------------------------------------------------------------ os.path
Sep == "/"

\* posixpath.join(a, b).
Join2(a, b) ==
    IF b # <<>> /\ Head(b) = Sep THEN b
    ELSE IF a = <<>> \/ a[Len(a)] = Sep THEN a \o b
    ELSE a \o <<Sep>> \o b

RECURSIVE RFind(_, _, _)
RFind(s, c, i) == IF i = 0 THEN 0 ELSE IF s[i] = c THEN i ELSE RFind(s, c, i - 1)

RECURSIVE RStripSep(_)
RStripSep(s) ==
    IF s # <<>> /\ s[Len(s)] = Sep THEN RStripSep(SubSeq(s, 1, Len(s) - 1)) ELSE s

\* posixpath.dirname(p).
Dirname(p) ==
    LET head == SubSeq(p, 1, RFind(p, Sep, Len(p)))
    IN  IF head # <<>> /\ (\E i \in 1..Len(head) : head[i] # Sep)
        THEN RStripSep(head) ELSE head

\* The components of p between separators.
RECURSIVE Split(_, _)
Split(p, cur) ==
    IF p = <<>> THEN <<cur>>
    ELSE IF Head(p) = Sep THEN <<cur>> \o Split(Tail(p), <<>>)
    ELSE Split(Tail(p), Append(cur, Head(p)))

RECURSIVE NormComps(_, _)
NormComps(comps, acc) ==
    IF comps = <<>> THEN acc
    ELSE LET c == Head(comps)
         IN  IF c = <<>> \/ c = <<".">> THEN NormComps(Tail(comps), acc)
             ELSE IF c = <<".", ".">> /\ acc # <<>>
                  THEN NormComps(Tail(comps), SubSeq(acc, 1, Len(acc) - 1))
             ELSE IF c = <<".", ".">> THEN NormComps(Tail(comps), acc)
             ELSE NormComps(Tail(comps), Append(acc, c))

RECURSIVE JoinComps(_)
JoinComps(comps) ==
    IF comps = <<>> THEN <<>>
    ELSE IF Len(comps) = 1 THEN Head(comps)
    ELSE Head(comps) \o <<Sep>> \o JoinComps(Tail(comps))

\* posixpath.normpath(p) of an absolute path.
Normpath(p) == <<Sep>> \o JoinComps(NormComps(Split(p, <<>>), <<>>))

\* The working directory the script is started in.
Cwd == <<"/","r">>

\* os.path.abspath(p).
Abspath(p) == Normpath(IF p # <<>> /\ Head(p) = Sep THEN p ELSE Join2(Cwd, p))

\* current_dir, from __file__.
CurrentDir(file) == Dirname(Abspath(file))

\* puzzle_dir.
PuzzleDir(file) ==
    Join2(Join2(CurrentDir(file), <<"s","r","c">>), <<"p","u","z","z","l","e">>)

\* 'day%d.rs' % n.
FileName(n) == <<"d","a","y">> \o FormatD(n) \o <<".","r","s">>

\* The path handed to open().
OutputPath(file, n) == Join2(PuzzleDir(file), FileName(n))

\* ------------------------------------------------------------ the template
Placeholder == <<"<","D",">">>

Template ==
       <<"/","*","\n">>  \* line 7
    \o <<"*","*"," ","s","r","c","/","p","u","z","z","l","e","/","d","a","y","<","D",">",".","r","s","\n">>  \* line 8
    \o <<"*","/","\n">>  \* line 9
    \o <<"\n">>  \* line 10
    \o <<"u","s","e"," ","c","r","a","t","e",":",":","p","u","z","z","l","e",":",":","*",";","\n">>  \* line 11
    \o <<"\n">>  \* line 12
    \o <<"c","o","n","s","t"," ","I","N","P","U","T",":"," ","&","s","t","r"," ","="," ","i","n","c","l","u","d","e","_","s","t","r","!","(","\"",".",".","/",".",".","/","i","n","p","u","t","/","<","D",">",".","i","n","p","u","t","\"",")",";","\n">>  \* line 13
    \o <<"\n">>  \* line 14
    \o <<"p","u","b"," ","s","t","r","u","c","t"," ","D","a","y","<","D",">"," ","{","}","\n">>  \* line 15
    \o <<"\n">>  \* line 16
    \o <<"i","m","p","l"," ","D","a","y","<","D",">"," ","{","\n">>  \* line 17
    \o <<" "," "," "," ","p","u","b"," ","f","n"," ","n","e","w","(",")"," ","-",">"," ","S","e","l","f"," ","{","\n">>  \* line 18
    \o <<" "," "," "," "," "," "," "," ","D","a","y","<","D",">"," ","{","}","\n">>  \* line 19
    \o <<" "," "," "," ","}","\n">>  \* line 20
    \o <<"}","\n">>  \* line 21
    \o <<"\n">>  \* line 22
    \o <<"i","m","p","l"," ","P","u","z","z","l","e"," ","f","o","r"," ","D","a","y","<","D",">"," ","{","\n">>  \* line 23
    \o <<" "," "," "," ","/","/"," ","<","Q","U","E","S","T","I","O","N",">","\n">>  \* line 24
    \o <<" "," "," "," ","f","n"," ","p","a","r","t","1","(","&","s","e","l","f",")"," ","-",">"," ","R","e","s","u","l","t","<","S","o","l","u","t","i","o","n",">"," ","{","\n">>  \* line 25
    \o <<" "," "," "," "," "," "," "," ","u","n","i","m","p","l","e","m","e","n","t","e","d","!","(",")","\n">>  \* line 26
    \o <<" "," "," "," ","}","\n">>  \* line 27
    \o <<"\n">>  \* line 28
    \o <<" "," "," "," ","/","/"," ","<","Q","U","E","S","T","I","O","N",">","\n">>  \* line 29
    \o <<" "," "," "," ","f","n"," ","p","a","r","t","2","(","&","s","e","l","f",")"," ","-",">"," ","R","e","s","u","l","t","<","S","o","l","u","t","i","o","n",">"," ","{","\n">>  \* line 30
    \o <<" "," "," "," "," "," "," "," ","u","n","i","m","p","l","e","m","e","n","t","e","d","!","(",")","\n">>  \* line 31
    \o <<" "," "," "," ","}","\n">>  \* line 32
    \o <<"}","\n">>  \* line 33

\* A mutant of Render: the raw placeholder is kept at its last site.
RenderButLast(n) == ReplaceButLast(Template, Placeholder, Str(n))

\* A mutant of Render: str.replace with count = 1.
RenderFirst(n) == ReplaceFirst(Template, Placeholder, Str(n))

\* template.replace('<D>', str(n)).
Render(n) == Replace(Template, Placeholder, Str(n))

\* ------------------------------------------------------------ inputs
ArgChars == {"0", "7", "-", "+", "_", " ", "a"}

\* Every string over ArgChars of at most MaxArgLen characters.
Args == UNION {[1..k -> ArgChars] : k \in 0..MaxArgLen}

\* An argument after the first.
ExtraArg == <<"7","0">>

\* The arguments after the script's name: none, one, or one and an extra one.
ArgLists == {<<>>} \cup {<<a>> : a \in Args} \cup {<<a, ExtraArg>> : a \in Args}

\* __file__ as the script is started: relative to Cwd, or absolute in the root.
ScriptFiles == {<<".","/","n">>, <<"/","n">>}

\* The integers the arguments convert to.
Days == {ParseInt(a).val : a \in Args}

\* The arguments that convert to day d.
ArgsOfDay == [d \in Days |-> {a \in Args : ParseInt(a).ok /\ ParseInt(a).val = d}]

\* Render, tabulated once over Days.
Rendered == [d \in Days |-> Render(d)]

\* What a file of an earlier, longer scaffold holds.
OldContent == Template \o <<"/","/"," ","o","l","d","\n">>

NoFiles == [p \in {} |-> <<>>]

NoDirs == [p \in {} |-> "ok"]

\* A file of the puzzle directory the script never names.
ModFile(file) == Join2(PuzzleDir(file), <<"m","o","d",".","r","s">>)

\* The files the puzzle directory may hold before the first run.
InitialFiles(file) ==
    { NoFiles,
      OutputPath(file, 7) :> OldContent,
      (OutputPath(file, 7) :> OldContent) @@ (ModFile(file) :> <<"m">>) }

\* ------------------------------------------------------------ state
VARIABLES
    argv,     \* sys.argv: the script's name, then the arguments
    pc,       \* where the run is: start, convert, open, write, exit_with, exited
    n,        \* the variable n: unset, the argument string, then the integer
    files,    \* the file system: path -> content
    dirs,     \* the existing directories: path -> "ok", "readonly" or "full"
    handle,   \* puzzle_file
    exc,      \* the exception raised inside the with block, "" when none
    stderr,   \* the lines written to the error stream by this run
    status,   \* the exit status, -1 while the run goes on
    files0,   \* the file system as this run found it
    ops       \* the file operations of this run, in order

vars == <<argv, pc, n, files, dirs, handle, exc, stderr, status, files0, ops>>

Closed == [open |-> FALSE, path |-> <<>>, pos |-> 0]

Unset == [kind |-> "unset", str |-> <<>>, int |-> 0]

\* A line of the error stream: a text and the value that stands where the text
\* has its conversion ("%r", "%s"), <<>> where it has none.
Line(text, value) == [text |-> text, value |-> value]

\* What the interpreter prints for an exception nothing catches: the header, the
\* place, the source line and the exception (an interpreter that marks the
\* position adds a line of carets under the source line).
Traceback(file, source, error, value) ==
    << Line("Traceback (most recent call last):", <<>>),
       Line("  File \"%s\", line 51, in <module>", file),
       Line(source, <<>>),
       Line(error, value) >>

WithSource == "    with open(os.path.join(puzzle_dir, 'day%d.rs' % n), 'w') as puzzle_file:"

\* A mutant of SysExit: the message is printed and the run ends with status 0.
SysExitZero(message) ==
    /\ stderr' = <<message>>
    /\ status' = 0
    /\ pc' = "exited"

\* sys.exit(message): the message on the error stream, exit status 1.
SysExit(message) ==
    /\ stderr' = <<message>>
    /\ status' = 1
    /\ pc' = "exited"

Init ==
    /\ \E file \in ScriptFiles, args \in ArgLists : argv = <<file>> \o args
    /\ \/ dirs = NoDirs /\ files = NoFiles
       \/ /\ \E mode \in {"ok", "readonly", "full"} : dirs = (PuzzleDir(argv[1]) :> mode)
          /\ files \in InitialFiles(argv[1])
    /\ pc = "start"
    /\ n = Unset
    /\ handle = Closed
    /\ exc = ""
    /\ stderr = <<>>
    /\ status = -1
    /\ files0 = files
    /\ ops = <<>>

\* A mutant of FirstArg: the last argument is taken.
LastArg(av) == av[Len(av)]

\* sys.argv[1].
FirstArg(av) == av[2]

\* if len(sys.argv) < 2: sys.exit("error: missing argument DAY")
CheckArgs ==
    /\ pc = "start"
    /\ IF Len(argv) < 2
       THEN /\ SysExit(Line("error: missing argument DAY", <<>>))
            /\ UNCHANGED n
       ELSE /\ n' = [kind |-> "str", str |-> FirstArg(argv), int |-> 0]
            /\ pc' = "convert"
            /\ UNCHANGED <<stderr, status>>
    /\ UNCHANGED <<argv, files, dirs, handle, exc, files0, ops>>

\* n = sys.argv[1] (set as CheckArgs passes), then
\* try: n = int(n)  except ValueError: sys.exit("error: invalid argument DAY: %r" % n)
Convert ==
    /\ pc = "convert"
    /\ LET r == ParseInt(n.str)
       IN  IF r.ok
           THEN /\ n' = [kind |-> "int", str |-> <<>>, int |-> r.val]
                /\ pc' = "open"
                /\ UNCHANGED <<stderr, status>>
           ELSE /\ SysExit(Line("error: invalid argument DAY: %r", Repr(n.str)))
                /\ UNCHANGED n
    /\ UNCHANGED <<argv, files, dirs, handle, exc, files0, ops>>

\* A mutant of OpenedContent: the file is opened without truncation ('r+').
OpenedContentKept(old) == old

\* Mode 'w': the file is created empty or truncated to no content.
OpenedContent(old) == <<>>

\* A mutant of OpenError: a missing directory is no error (it is made on the way).
OpenErrorDirMade(path) ==
    IF Dirname(path) \in DOMAIN dirs /\ path \notin DOMAIN files
       /\ dirs[Dirname(path)] = "readonly"
    THEN "PermissionError: [Errno 13] Permission denied: %r"
    ELSE ""

\* "" when open(path, 'w') succeeds, else the exception it raises.
OpenError(path) ==
    IF Dirname(path) \notin DOMAIN dirs
    THEN "FileNotFoundError: [Errno 2] No such file or directory: %r"
    ELSE IF path \notin DOMAIN files /\ dirs[Dirname(path)] = "readonly"
    THEN "PermissionError: [Errno 13] Permission denied: %r"
    ELSE ""

\* with open(os.path.join(puzzle_dir, 'day%d.rs' % n), 'w') as puzzle_file:
OpenFile ==
    /\ pc = "open"
    /\ LET path == OutputPath(argv[1], n.int)
           error == OpenError(path)
       IN  IF error # ""
           THEN /\ stderr' = Traceback(argv[1], WithSource, error, Repr(path))
                /\ status' = 1
                /\ pc' = "exited"
                /\ UNCHANGED <<files, handle, ops>>
           ELSE /\ files' = (path :> OpenedContent(IF path \in DOMAIN files
                                                   THEN files[path] ELSE <<>>)) @@ files
                /\ handle' = [open |-> TRUE, path |-> path, pos |-> 0]
                /\ ops' = Append(ops, <<"open", path>>)
                /\ pc' = "write"
                /\ UNCHANGED <<stderr, status>>
    /\ UNCHANGED <<argv, n, dirs, exc, files0>>

\* content with data written at offset pos.
WriteAt(content, pos, data) ==
    SubSeq(content, 1, pos) \o data
    \o SubSeq(content, pos + Len(data) + 1, Len(content))

\* puzzle_file.write(template.replace('<D>', str(n))).  Where the device is full the
\* text never reaches the file, which stays as open() left it, and the OSError is
\* raised inside the with statement.
WriteFile ==
    /\ pc = "write"
    /\ IF dirs[Dirname(handle.path)] = "full"
       THEN /\ exc' = "OSError: [Errno 28] No space left on device"
            /\ UNCHANGED <<files, handle, ops>>
       ELSE /\ files' = [files EXCEPT ![handle.path] =
                             WriteAt(@, handle.pos, Rendered[n.int])]
            /\ handle' = [handle EXCEPT !.pos = @ + Len(Rendered[n.int])]
            /\ ops' = Append(ops, <<"write", handle.path>>)
            /\ exc' = ""
    /\ pc' = "exit_with"
    /\ UNCHANGED <<argv, n, dirs, stderr, status, files0>>

\* A mutant of HandleAfterWith: the file is closed on the normal path only.
HandleAfterWithLeak(h, e) == IF e = "" THEN Closed ELSE h

\* puzzle_file after the with statement is left, with or without an exception.
HandleAfterWith(h, e) == Closed

\* The end of the with block: the file is closed; an exception raised inside goes
\* on to the interpreter, and the script has nothing after the block.
ExitWith ==
    /\ pc = "exit_with"
    /\ handle' = HandleAfterWith(handle, exc)
    /\ ops' = IF handle'.open THEN ops ELSE Append(ops, <<"close", handle.path>>)
    /\ IF exc # ""
       THEN /\ stderr' = Traceback(argv[1], WithSource, exc, <<>>)
            /\ status' = 1
       ELSE /\ status' = 0
            /\ UNCHANGED stderr
    /\ pc' = "exited"
    /\ UNCHANGED <<argv, n, files, dirs, exc, files0>>

\* The argument lists that ask for the same day as old does, and old itself.
SameRequests(old) ==
    {old} \cup
    IF old # <<>> /\ ParseInt(old[1]).ok
    THEN LET same == ArgsOfDay[ParseInt(old[1]).val]
         IN  {<<a>> : a \in same} \cup {<<a, ExtraArg>> : a \in same}
    ELSE {}

\* The script is started again for the same day, on the file system the last run
\* left.
Reinvoke ==
    /\ pc = "exited"
    /\ \E args \in SameRequests(Tail(argv)) : argv' = <<argv[1]>> \o args
    /\ pc' = "start"
    /\ n' = Unset
    /\ handle' = Closed
    /\ exc' = ""
    /\ stderr' = <<>>
    /\ status' = -1
    /\ files0' = files
    /\ ops' = <<>>
    /\ UNCHANGED <<files, dirs>>

Next ==
    \/ CheckArgs
    \/ Convert
    \/ OpenFile
    \/ WriteFile
    \/ ExitWith
    \/ Reinvoke

Spec == Init /\ [][Next]_vars

\* ------------------------------------------------------------ what the claims speak of
\* The run was given a first argument.
HasArg == Len(argv) >= 2

\* The first argument is one int() accepts.
ValidArg == HasArg /\ ParseInt(argv[2]).ok

\* The day the first argument stands for.
Day == ParseInt(argv[2]).val

\* The script's directory, with the separator that ends it.
ScriptDirSlash == IF argv[1] = <<"/","n">> THEN <<"/">> ELSE <<"/","r","/">>

\* <script dir>/src/puzzle
ExpectedDir == ScriptDirSlash \o <<"s","r","c","/","p","u","z","z","l","e">>

\* <script dir>/src/puzzle/day<text>.rs
ExpectedPath(text) ==
    ExpectedDir \o <<"/","d","a","y">> \o text \o <<".","r","s">>

DirExists == ExpectedDir \in DOMAIN dirs

\* src/puzzle exists and takes the file and its content.
DirWritable == DirExists /\ dirs[ExpectedDir] = "ok"

Succeeded == pc = "exited" /\ status = 0

\* The rendered text is in the file: the write has returned without an exception.
Written == (pc = "exit_with" /\ exc = "") \/ Succeeded

\* The file of the day, as this state has it.
DayFile == files[ExpectedPath(Str(Day))]

\* No file operation has happened in this run and no file or directory differs
\* from what the run found.
Untouched == ops = <<>> /\ ~handle.open /\ files = files0

\* The positions of the line ends of s.
LineEnds(s) == {i \in 1..Len(s) : s[i] = "\n"}

\* The lines of s, each without its line end.
Lines(s) ==
    LET ends == LineEnds(s)
        end == [k \in 0..Cardinality(ends) |->
                   IF k = 0 THEN 0
                   ELSE CHOOSE i \in ends : Cardinality({j \in ends : j < i}) = k - 1]
    IN  [k \in 1..Cardinality(ends) |-> SubSeq(s, end[k - 1] + 1, end[k] - 1)]

\* The lines of the template: line 1 is line 7 of new_puzzle.py.
TemplateLines == Lines(Template)

\* The lines of the template that hold the placeholder.
SiteLines == {k \in DOMAIN TemplateLines : Count(TemplateLines[k], Placeholder) > 0}

\* The lines of s that are not the template's.
ChangedLines(s) ==
    LET lines == Lines(s)
    IN  {k \in DOMAIN TemplateLines : k \notin DOMAIN lines \/ lines[k] # TemplateLines[k]}

\* What a line that holds the placeholder reads with text t in its place.
SiteLine(k, t) ==
    CASE k = 2 -> <<"*","*"," ","s","r","c","/","p","u","z","z","l","e","/","d","a","y">>
                  \o t \o <<".","r","s">>
      [] k = 7 -> <<"c","o","n","s","t"," ","I","N","P","U","T",":"," ","&","s","t","r"," ","="," ","i","n","c","l","u","d","e","_","s","t","r","!","(","\"",".",".","/",".",".","/","i","n","p","u","t","/">>
                  \o t \o <<".","i","n","p","u","t","\"",")",";">>
      [] k = 9 -> <<"p","u","b"," ","s","t","r","u","c","t"," ","D","a","y">> \o t \o <<" ","{","}">>
      [] k = 11 -> <<"i","m","p","l"," ","D","a","y">> \o t \o <<" ","{">>
      [] k = 13 -> <<" "," "," "," "," "," "," "," ","D","a","y">> \o t \o <<" ","{","}">>
      [] k = 17 -> <<"i","m","p","l"," ","P","u","z","z","l","e"," ","f","o","r"," ","D","a","y">>
                   \o t \o <<" ","{">>
      [] OTHER -> TemplateLines[k]

\* ------------------------------------------------------------ the claims

\* C1: a run whose first argument int() accepts, with src/puzzle present and
\* writable, ends with status 0 and the file <script dir>/src/puzzle/day<n>.rs
\* exists, n being the value of the argument and not its text: "07" and " 7" give
\* day7.rs, "-7" gives day-7.rs, and no file named after the raw text appears.
C1_ValidArgWritesDayFile ==
    (pc = "exited" /\ ValidArg /\ DirWritable) =>
        /\ status = 0
        /\ ExpectedPath(Str(Day)) \in DOMAIN files
        /\ argv[2] # Str(Day) => ExpectedPath(argv[2]) \notin DOMAIN files
        /\ argv[2] \in {<<"7">>, <<"0","7">>, <<" ","7">>, <<"+","7">>} =>
               ExpectedPath(<<"7">>) \in DOMAIN files
        /\ argv[2] = <<"-","7">> => ExpectedPath(<<"-","7">>) \in DOMAIN files
        /\ argv[2] \in {<<"0","0">>, <<"-","0">>} => ExpectedPath(<<"0">>) \in DOMAIN files

\* C1's case: the argument "07" has been run to its end in a writable, empty
\* src/puzzle and day7.rs is there.
C1_Witness ==
    /\ pc = "exited" /\ HasArg /\ argv[2] = <<"0","7">> /\ DirWritable
    /\ files0 = NoFiles
    /\ status = 0
    /\ DOMAIN files = {ExpectedPath(<<"7">>)}

\* C2: a run without an argument ends with a non-zero status and the one line
\* "error: missing argument DAY" on the error stream, and at no point of the run
\* is a file opened, created, truncated or written.
C2_MissingArgExits ==
    ~HasArg =>
        /\ Untouched
        /\ pc \in {"start", "exited"}
        /\ pc = "exited" =>
               /\ status # 0
               /\ stderr = <<[text |-> "error: missing argument DAY", value |-> <<>>]>>

\* C2's case: a run without an argument has ended, in a directory that holds files.
C2_Witness == ~HasArg /\ pc = "exited" /\ status = 1 /\ files # NoFiles

\* C3: a run whose first argument int() rejects ends with a non-zero status and
\* the one line "error: invalid argument DAY: " followed by the quoted argument,
\* and at no point of the run is a file opened, created, truncated or written; "a",
\* "", "7a", "_7", "- 7" and "--" are such arguments.
C3_InvalidArgExits ==
    /\ (HasArg /\ ~ParseInt(argv[2]).ok) =>
        /\ Untouched
        /\ pc \in {"start", "convert", "exited"}
        /\ pc = "exited" =>
               /\ status # 0
               /\ stderr = <<[text |-> "error: invalid argument DAY: %r",
                              value |-> <<"'">> \o argv[2] \o <<"'">>]>>
    /\ (HasArg /\ argv[2] \in {<<"a">>, <<>>, <<"7","a">>, <<"_","7">>, <<"7","_">>,
                               <<"-"," ">>, <<"-","-">>, <<"+">>, <<" ">>}) =>
        /\ Untouched
        /\ pc = "exited" => status # 0

\* C3's case: the argument "7a" has been refused and the day7.rs that was there
\* still holds what it held.
C3_Witness ==
    /\ pc = "exited" /\ HasArg /\ argv[2] = <<"7","a">>
    /\ status = 1
    /\ ExpectedPath(<<"7">>) \in DOMAIN files
    /\ files[ExpectedPath(<<"7">>)] = OldContent

\* C4: the text written to the file holds no "<D>", and each of the places where
\* the template holds "<D>" holds str(n): the k-th place has moved by k - 1 times
\* the difference of the two lengths.
C4_NoPlaceholderLeft ==
    (Written /\ ValidArg /\ n.kind = "int") =>
        LET sites == Occurrences(Template, Placeholder, 1)
            text == Str(n.int)
            shift == Len(text) - Len(Placeholder)
        IN  /\ Count(DayFile, Placeholder) = 0
            /\ \A k \in 1..Len(sites) :
                   SubSeq(DayFile, sites[k] + (k - 1) * shift,
                          sites[k] + (k - 1) * shift + Len(text) - 1) = text

\* C4's case: the scaffold of day -7 has been written.
C4_Witness ==
    /\ Succeeded /\ ValidArg /\ Day = -7
    /\ Count(DayFile, <<"-","7">>) > 0

\* C5 as stated: str(n) is inserted at exactly five places, the header comment,
\* the resource path, the type name twice and the constructor reference.
C5_FiveInsertions ==
    (Written /\ ValidArg) => Cardinality(ChangedLines(DayFile)) = 5

\* C5, amended: str(n) is inserted at exactly six places and nowhere else: the
\* header comment (line 8 of new_puzzle.py), the resource path (line 13), the type
\* name in the struct declaration and the two impl headers (lines 15, 17, 23) and
\* the constructor expression (line 19); every other line is the template's.
C5_SixInsertions ==
    (Written /\ ValidArg) =>
        /\ DayFile[Len(DayFile)] = "\n"
        /\ LET lines == Lines(DayFile)
           IN  /\ DOMAIN lines = DOMAIN TemplateLines
               /\ \A k \in DOMAIN lines : lines[k] = SiteLine(k, Str(Day))
        /\ Len(DayFile) = Len(Template) + 6 * (Len(Str(Day)) - Len(Placeholder))
        /\ ChangedLines(DayFile) = {2, 7, 9, 11, 13, 17}
        /\ Count(DayFile, Str(Day)) = 6 + Count(Template, Str(Day))

\* C5's case: the scaffold of day 70 has been written.
C5_Witness ==
    /\ Succeeded /\ ValidArg /\ Day = 70
    /\ Cardinality(ChangedLines(DayFile)) = 6

\* C6: for a fixed script location the path handed to open() is a function of the
\* integer alone, <script dir>/src/puzzle/day<n>.rs whatever the argument's text,
\* and no other integer's path is the same.
C6_PathInjective ==
    handle.open =>
        /\ handle.path = ExpectedPath(Str(n.int))
        /\ \A d \in Days : d # n.int => OutputPath(argv[1], d) # handle.path

\* C6's case: the file of day -7 is open, and day 7 is another day the runs name.
C6_Witness ==
    /\ handle.open /\ n.int = -7 /\ 7 \in Days
    /\ handle.path = ExpectedPath(<<"-","7">>)

\* C7: after a successful run the file holds the text this run rendered and
\* nothing else, whatever it held before: a longer earlier content leaves no tail.
C7_FullOverwrite ==
    (Succeeded /\ ValidArg) =>
        /\ DayFile = Render(Day)
        /\ Len(DayFile) = Len(Template) + 6 * (Len(Str(Day)) - Len(Placeholder))

\* C7's case: day7.rs held a longer text before the run and holds the shorter
\* rendered one after it.
C7_Witness ==
    /\ Succeeded /\ ValidArg /\ Day = 7
    /\ ExpectedPath(<<"7">>) \in DOMAIN files0
    /\ files0[ExpectedPath(<<"7">>)] = OldContent
    /\ Len(DayFile) < Len(OldContent)

C9_OnlyTheDayFile ==
    /\ \A k \in 1..Len(ops) : ops[k][2] = ExpectedPath(Str(Day))
    /\ (Succeeded /\ ValidArg) =>
        /\ ops = << <<"open", ExpectedPath(Str(Day))>>,
                    <<"write", ExpectedPath(Str(Day))>>,
                    <<"close", ExpectedPath(Str(Day))>> >>
        /\ DOMAIN files = DOMAIN files0 \cup {ExpectedPath(Str(Day))}
        /\ \A p \in DOMAIN files0 : p # ExpectedPath(Str(Day)) => files[p] = files0[p]
        /\ DayFile = Render(Day)
        /\ DOMAIN dirs = {ExpectedDir}

\* C9's case: a run with a second argument has written day0.rs beside two files it
\* left alone.
C9_Witness ==
    /\ Succeeded /\ Len(argv) = 3 /\ ValidArg /\ Day = 0
    /\ Cardinality(DOMAIN files) = 3
    /\ Cardinality(DOMAIN files0) = 2

\* C10: no handle on the output file is open once the run has ended, however it
\* ended, and a handle is open only after the argument has been converted.
C10_HandleReleased ==
    /\ pc = "exited" => ~handle.open
    /\ handle.open => ValidArg /\ n.kind = "int" /\ pc \in {"write", "exit_with"}

\* C10's case: the write failed after the file was opened, the run has ended with
\* the traceback and the file is closed.
C10_Witness ==
    /\ pc = "exited" /\ exc # "" /\ status = 1
    /\ ~handle.open
    /\ ops = << <<"open", ExpectedPath(Str(Day))>>, <<"close", ExpectedPath(Str(Day))>> >>

====
